---- MODULE Spec2Model ----
(***************************************************************************)
(* A model of the cumplo-scraper funding-request pipeline: the filter      *)
(* catalog (cumplo_spotter/models/filter.py), the filter-set evaluator     *)
(* (integrations/cumplo.py), the construction of a CumploFundingRequest    *)
(* (cumplo_spotter/models/cumplo/funding_request.py) and the HTTP handlers *)
(* that combine the per-configuration results (routers/funding_requests.py *)
(* and cumplo_spotter/routers/funding_requests/public.py), the enrichment  *)
(* fan-out (integrations/cumplo.py, gather_full_funding_requests) and the  *)
(* scheduling of the filter tasks by /fetch over the user records of the   *)
(* store (routers/funding_requests.py, integrations/firestore.py).         *)
(*                                                                         *)
(* Numbers are integers.  Python's None is the number None (-1) in a       *)
(* numeric field, the string "none" in a tri-state field and the           *)
(* record with present = FALSE for an optional sub-configuration.          *)
(* The result of a Python call is a record [raised, value]: raised = ""    *)
(* when the call returned value, the exception's name when it raised.      *)
(***************************************************************************)
EXTENDS Integers, Sequences, FiniteSets, TLC

VARIABLES
    mode,              \* which part of the program this behaviour exercises
    configuration,     \* filter: the FilterConfiguration of the Filter objects
    funding_request,   \* filter: the FundingRequest handed to apply
    applied,           \* filter: the filter class whose apply ran ("" before)
    outcome,           \* filter: what apply returned or raised
    filters,           \* filter set: the *filters argument (class names)
    funding_requests,  \* filter set: the funding_requests argument
    filtered,          \* filter set: what _filter_funding_requests returned or raised
    data,              \* construction: the raw upstream payload
    constructed,       \* construction: the CumploFundingRequest, or the failure
    user,              \* handlers: the user (configurations, webhook_url)
    payload,           \* handlers: the batch of funding requests
    handler,           \* handlers: the handler that ran ("" before)
    promising,         \* handlers: promising_funding_requests, or the filter's failure
    failure,           \* handlers: the exception that ended the handler ("" if none)
    tasks,             \* handlers: the tasks created by create_http_task
    events,            \* handlers: the events published by CloudPubSub.publish
    full_funding_requests, \* gather: the list handed to gather_full_funding_requests
    source,            \* gather: what the remote source answers for each id
    futures,           \* gather: the tasks made by ensure_future, by position
    completion,        \* gather: the positions of the finished tasks, in order
    gathering,         \* gather: where the coroutine is ("" before the call)
    gathered,          \* gather: what the coroutine returned or raised
    store,             \* schedule: the user records of the document store
    queue,             \* schedule: the filter tasks created and not yet run
    fetches,           \* schedule: the number of /fetch calls so far
    updates            \* schedule: the number of update_user calls so far

vars == <<mode, configuration, funding_request, applied, outcome, filters,
          funding_requests, filtered, data, constructed, user, payload,
          handler, promising, failure, tasks, events, full_funding_requests,
          source, futures, completion, gathering, gathered, store, queue,
          fetches, updates>>

filterVars == <<configuration, funding_request, applied, outcome>>
filterSetVars == <<filters, funding_requests, filtered>>
constructionVars == <<data, constructed>>
handlerVars == <<user, payload, handler, promising, failure, tasks, events>>
gatherVars == <<full_funding_requests, source, futures, completion, gathering, gathered>>
scheduleVars == <<store, queue, fetches, updates>>

----------------------------------------------------------------------------
(* Python values *)

None == -1

Return(v) == [raised |-> "", value |-> v]

Raise(e) == [raised |-> e, value |-> FALSE]

\* bool(x) of an Optional[int] / Optional[Decimal]: None and 0 are falsy.
Truthy(x) == x # None /\ x # 0

\* bool(x) of an Optional[bool] held as "true" / "false" / "none".
IsTrue(t) == t = "true"

TriState == {"true", "false", "none"}

\* any(...) over a list of booleans.
RECURSIVE AnyOf(_)
AnyOf(bools) == IF bools = <<>> THEN FALSE ELSE Head(bools) \/ AnyOf(Tail(bools))

Range(s) == {s[i] : i \in DOMAIN s}

\* The sequences over S of length at most n.
SeqsUpTo(S, n) == UNION {[1..k -> S] : k \in 0..n}

----------------------------------------------------------------------------
(* The filter catalog: cumplo_spotter/models/filter.py *)

DAY == "DAY"
MONTH == "MONTH"

CreditTypeFilter(cfg, fr) ==
    IF cfg.target_credit_types = {"none"}
    THEN Return(TRUE)
    ELSE Return(fr.credit_type \in cfg.target_credit_types)

MinimumInvestmentFilter(cfg, fr) ==
    IF cfg.minimum_investment_amount = None
    THEN Return(TRUE)
    ELSE Return(fr.maximum_investment >= cfg.minimum_investment_amount)

MinimumScoreFilter(cfg, fr) ==
    IF cfg.minimum_score = None
    THEN Return(TRUE)
    ELSE Return(fr.score >= cfg.minimum_score)

MinimumMonthlyProfitFilter(cfg, fr) ==
    IF cfg.minimum_monthly_profit_rate = None
    THEN Return(TRUE)
    ELSE Return(fr.monthly_profit_rate >= cfg.minimum_monthly_profit_rate)

MinimumIRRFilter(cfg, fr) ==
    IF cfg.minimum_irr = None
    THEN Return(TRUE)
    ELSE Return(fr.irr >= cfg.minimum_irr)

\* The duration read as days whatever its unit.
DurationInDaysIgnoringUnit(duration) == duration.value

\* The duration in days as both duration filters compute it.
DurationInDays(duration) ==
    IF duration.unit = DAY THEN duration.value ELSE duration.value * 30

MinimumDurationFilter(cfg, fr) ==
    IF cfg.minimum_duration = None
    THEN Return(TRUE)
    ELSE Return(DurationInDays(fr.duration) >= cfg.minimum_duration)

MaximumDurationFilter(cfg, fr) ==
    IF cfg.maximum_duration = None
    THEN Return(TRUE)
    ELSE Return(DurationInDays(fr.duration) <= cfg.maximum_duration)

\* DebtorDicomFilter with an unset toggle read as "ignore".
DebtorDicomFilterUnsetIgnores(cfg, fr) ==
    IF ~cfg.debtor.present
    THEN Raise("AttributeError")
    ELSE IF cfg.debtor.ignore_debtor_dicom # "false"
         THEN Return(TRUE)
         ELSE Return(~AnyOf([i \in DOMAIN fr.debtors |-> IsTrue(fr.debtors[i].dicom)]))

\* configuration.debtor.ignore_debtor_dicom is read with no guard: with
\* configuration.debtor = None the attribute access raises.
DebtorDicomFilter(cfg, fr) ==
    IF ~cfg.debtor.present
    THEN Raise("AttributeError")
    ELSE IF IsTrue(cfg.debtor.ignore_debtor_dicom)
         THEN Return(TRUE)
         ELSE Return(~AnyOf([i \in DOMAIN fr.debtors |-> IsTrue(fr.debtors[i].dicom)]))

BorrowerDicomFilter(cfg, fr) ==
    IF ~cfg.borrower.present
    THEN Raise("AttributeError")
    ELSE IF IsTrue(cfg.borrower.ignore_borrower_dicom)
         THEN Return(TRUE)
         ELSE Return(~IsTrue(fr.borrower.dicom))

MinimumCreditsRequestedFilter(cfg, fr) ==
    IF ~Truthy(cfg.minimum_requested_credits)
    THEN Return(TRUE)
    ELSE Return(fr.borrower.portfolio.total_requests >= cfg.minimum_requested_credits)

MinimumAmountRequestedFilter(cfg, fr) ==
    IF ~Truthy(cfg.minimum_requested_amount)
    THEN Return(TRUE)
    ELSE Return(fr.borrower.portfolio.total_amount >= cfg.minimum_requested_amount)

BorrowerMaximumAverageDaysDelinquentFilter(cfg, fr) ==
    IF ~cfg.borrower.present \/ ~Truthy(cfg.borrower.maximum_average_days_delinquent)
    THEN Return(TRUE)
    ELSE IF Truthy(fr.borrower.average_days_delinquent)
         THEN Return(fr.borrower.average_days_delinquent
                        <= cfg.borrower.maximum_average_days_delinquent)
         ELSE Return(TRUE)

BorrowerMinimumPaidInTimeFilter(cfg, fr) ==
    IF ~cfg.borrower.present \/ ~Truthy(cfg.borrower.minimum_paid_in_time_percentage)
    THEN Return(TRUE)
    ELSE IF ~Truthy(fr.borrower.portfolio.total_requests)
         THEN Return(TRUE)
         ELSE IF Truthy(fr.borrower.portfolio.paid_in_time)
              THEN Return(fr.borrower.portfolio.paid_in_time
                             >= cfg.borrower.minimum_paid_in_time_percentage)
              ELSE Return(TRUE)

\* The debtors of a request whose paid_in_time is not None, in order.
DebtorsWithPaidInTime(fr) ==
    SelectSeq(fr.debtors, LAMBDA d : d.portfolio.paid_in_time # None)

\* funding_request.debtor (singular) is read before funding_request.debtors:
\* a request class that has no such attribute raises, one that has it
\* (fr.debtor.defined) yields that debtor's portfolio.
DebtorMinimumPaidInTimeFilter(cfg, fr) ==
    IF ~cfg.debtor.present \/ ~Truthy(cfg.debtor.minimum_paid_in_time_percentage)
    THEN Return(TRUE)
    ELSE IF ~fr.debtor.defined
         THEN Raise("AttributeError")
         ELSE IF ~Truthy(fr.debtor.portfolio.total_requests)
              THEN Return(TRUE)
              ELSE LET rated == DebtorsWithPaidInTime(fr)
                   IN  Return(AnyOf([i \in DOMAIN rated |->
                           rated[i].portfolio.paid_in_time
                               >= cfg.debtor.minimum_paid_in_time_percentage]))

\* The 14 filter classes, in the order of the file.
FilterCatalog ==
    << "CreditTypeFilter", "MinimumInvestmentFilter", "MinimumScoreFilter",
       "MinimumMonthlyProfitFilter", "MinimumIRRFilter", "MinimumDurationFilter",
       "MaximumDurationFilter", "DebtorDicomFilter", "BorrowerDicomFilter",
       "MinimumCreditsRequestedFilter", "MinimumAmountRequestedFilter",
       "BorrowerMaximumAverageDaysDelinquentFilter",
       "BorrowerMinimumPaidInTimeFilter", "DebtorMinimumPaidInTimeFilter" >>

FilterClasses == Range(FilterCatalog)

\* Filter(configuration).apply(funding_request) of the class named f.
Apply(f, cfg, fr) ==
    CASE f = "CreditTypeFilter" -> CreditTypeFilter(cfg, fr)
      [] f = "MinimumInvestmentFilter" -> MinimumInvestmentFilter(cfg, fr)
      [] f = "MinimumScoreFilter" -> MinimumScoreFilter(cfg, fr)
      [] f = "MinimumMonthlyProfitFilter" -> MinimumMonthlyProfitFilter(cfg, fr)
      [] f = "MinimumIRRFilter" -> MinimumIRRFilter(cfg, fr)
      [] f = "MinimumDurationFilter" -> MinimumDurationFilter(cfg, fr)
      [] f = "MaximumDurationFilter" -> MaximumDurationFilter(cfg, fr)
      [] f = "DebtorDicomFilter" -> DebtorDicomFilter(cfg, fr)
      [] f = "BorrowerDicomFilter" -> BorrowerDicomFilter(cfg, fr)
      [] f = "MinimumCreditsRequestedFilter" -> MinimumCreditsRequestedFilter(cfg, fr)
      [] f = "MinimumAmountRequestedFilter" -> MinimumAmountRequestedFilter(cfg, fr)
      [] f = "BorrowerMaximumAverageDaysDelinquentFilter" ->
             BorrowerMaximumAverageDaysDelinquentFilter(cfg, fr)
      [] f = "BorrowerMinimumPaidInTimeFilter" -> BorrowerMinimumPaidInTimeFilter(cfg, fr)
      [] f = "DebtorMinimumPaidInTimeFilter" -> DebtorMinimumPaidInTimeFilter(cfg, fr)

----------------------------------------------------------------------------
(* The filter-set evaluator: integrations/cumplo.py *)

\* all(filter_.apply(x) for filter_ in filters): the generator stops at the
\* first filter that returns False and an exception of a filter reached
\* before that propagates.
RECURSIVE AllApply(_, _, _)
AllApply(fs, cfg, fr) ==
    IF fs = <<>>
    THEN Return(TRUE)
    ELSE LET o == Apply(Head(fs), cfg, fr)
         IN  IF o.raised # "" THEN o
             ELSE IF ~o.value THEN Return(FALSE)
             ELSE AllApply(Tail(fs), cfg, fr)

\* list(filter(lambda x: all(...), funding_requests)): the survivors in the
\* order of the input; the first request whose all(...) raises ends the call.
RECURSIVE _filter_funding_requests(_, _, _)
_filter_funding_requests(frs, fs, cfg) ==
    IF frs = <<>>
    THEN Return(<<>>)
    ELSE LET o == AllApply(fs, cfg, Head(frs))
         IN  IF o.raised # "" THEN [raised |-> o.raised, value |-> <<>>]
             ELSE LET rest == _filter_funding_requests(Tail(frs), fs, cfg)
                  IN  IF rest.raised # "" THEN rest
                      ELSE IF o.value THEN Return(<<Head(frs)>> \o rest.value)
                      ELSE rest

\* cumplo.filter_funding_requests(funding_requests, configuration): the 14
\* filters built on one configuration, applied as a conjunction.
filter_funding_requests(frs, cfg) == _filter_funding_requests(frs, FilterCatalog, cfg)

----------------------------------------------------------------------------
(* Inputs: configurations and funding requests *)

MaxDebtors == 2

\* Every threshold and toggle unset, both sub-configurations present.
AllUnset ==
    [ target_credit_types |-> {"none"},
      minimum_investment_amount |-> None,
      minimum_score |-> None,
      minimum_monthly_profit_rate |-> None,
      minimum_irr |-> None,
      minimum_duration |-> None,
      maximum_duration |-> None,
      minimum_requested_credits |-> None,
      minimum_requested_amount |-> None,
      debtor |-> [ present |-> TRUE,
                   ignore_debtor_dicom |-> "none",
                   minimum_paid_in_time_percentage |-> None ],
      borrower |-> [ present |-> TRUE,
                     ignore_borrower_dicom |-> "none",
                     maximum_average_days_delinquent |-> None,
                     minimum_paid_in_time_percentage |-> None ] ]

\* configuration.debtor = None / configuration.borrower = None.
NoDebtorConfiguration ==
    [ present |-> FALSE, ignore_debtor_dicom |-> "none",
      minimum_paid_in_time_percentage |-> None ]

NoBorrowerConfiguration ==
    [ present |-> FALSE, ignore_borrower_dicom |-> "none",
      maximum_average_days_delinquent |-> None,
      minimum_paid_in_time_percentage |-> None ]

DebtorConfigurations ==
    {NoDebtorConfiguration} \cup
    [ present : {TRUE}, ignore_debtor_dicom : TriState,
      minimum_paid_in_time_percentage : {None, 0, 2} ]

BorrowerConfigurations ==
    {NoBorrowerConfiguration} \cup
    [ present : {TRUE}, ignore_borrower_dicom : TriState,
      maximum_average_days_delinquent : {None, 0, 2},
      minimum_paid_in_time_percentage : {None, 0, 2} ]

ConfigurationFields ==
    { "target_credit_types", "minimum_investment_amount", "minimum_score",
      "minimum_monthly_profit_rate", "minimum_irr", "minimum_duration",
      "maximum_duration", "minimum_requested_credits", "minimum_requested_amount",
      "debtor", "borrower" }

ConfigurationValues(field) ==
    CASE field = "target_credit_types" -> {{"none"}, {"factoring"}, {"factoring", "state_subsidy"}}
      [] field = "minimum_duration" -> {None, 40}
      [] field = "maximum_duration" -> {None, 50}
      [] field \in {"minimum_requested_credits", "minimum_requested_amount"} -> {None, 0, 2}
      [] field = "debtor" -> DebtorConfigurations
      [] field = "borrower" -> BorrowerConfigurations
      [] OTHER -> {None, 2}

\* The configurations that differ from base in the given fields only.
RECURSIVE ConfigurationVariants(_, _)
ConfigurationVariants(base, fields) ==
    IF fields = {}
    THEN {base}
    ELSE LET field == CHOOSE x \in fields : TRUE
         IN  UNION { ConfigurationVariants([base EXCEPT ![field] = v], fields \ {field}) :
                     v \in ConfigurationValues(field) }

Debtors == [ dicom : TriState, portfolio : [paid_in_time : {None, 1, 3}] ]

Borrowers ==
    [ dicom : TriState,
      average_days_delinquent : {None, 0, 1, 3},
      portfolio : [ total_requests : {0, 3}, total_amount : {1, 3},
                    paid_in_time : {None, 0, 1, 3} ] ]

\* funding_request.debtor: not an attribute of the request (defined = FALSE)
\* or a debtor with a portfolio.
DebtorAttributes ==
    [ defined : {FALSE}, portfolio : [total_requests : {0}] ] \cup
    [ defined : {TRUE}, portfolio : [total_requests : {0, 3}] ]

BaseFundingRequest ==
    [ id |-> 1,
      credit_type |-> "factoring",
      maximum_investment |-> 3,
      score |-> 3,
      monthly_profit_rate |-> 3,
      irr |-> 3,
      duration |-> [value |-> 45, unit |-> DAY],
      debtors |-> << [dicom |-> "false", portfolio |-> [paid_in_time |-> 3]] >>,
      debtor |-> [defined |-> TRUE, portfolio |-> [total_requests |-> 3]],
      borrower |-> [ dicom |-> "false",
                     average_days_delinquent |-> None,
                     portfolio |-> [ total_requests |-> 3, total_amount |-> 3,
                                     paid_in_time |-> 3 ] ] ]

FundingRequestFields ==
    { "credit_type", "maximum_investment", "score", "monthly_profit_rate", "irr",
      "duration", "debtors", "debtor", "borrower" }

FundingRequestValues(field) ==
    CASE field = "credit_type" -> {"factoring", "bullet_loan"}
      [] field = "duration" -> [value : {2, 45}, unit : {DAY, MONTH}]
      [] field = "debtors" -> SeqsUpTo(Debtors, MaxDebtors)
      [] field = "debtor" -> DebtorAttributes
      [] field = "borrower" -> Borrowers
      [] OTHER -> {1, 3}

\* The funding requests that differ from base in the given fields only.
RECURSIVE FundingRequestVariants(_, _)
FundingRequestVariants(base, fields) ==
    IF fields = {}
    THEN {base}
    ELSE LET field == CHOOSE x \in fields : TRUE
         IN  UNION { FundingRequestVariants([base EXCEPT ![field] = v], fields \ {field}) :
                     v \in FundingRequestValues(field) }

\* The fields of the configuration and of the request that a filter class reads.
ConfigurationFieldsRead(f) ==
    CASE f = "CreditTypeFilter" -> {"target_credit_types"}
      [] f = "MinimumInvestmentFilter" -> {"minimum_investment_amount"}
      [] f = "MinimumScoreFilter" -> {"minimum_score"}
      [] f = "MinimumMonthlyProfitFilter" -> {"minimum_monthly_profit_rate"}
      [] f = "MinimumIRRFilter" -> {"minimum_irr"}
      [] f = "MinimumDurationFilter" -> {"minimum_duration"}
      [] f = "MaximumDurationFilter" -> {"maximum_duration"}
      [] f = "MinimumCreditsRequestedFilter" -> {"minimum_requested_credits"}
      [] f = "MinimumAmountRequestedFilter" -> {"minimum_requested_amount"}
      [] f \in {"DebtorDicomFilter", "DebtorMinimumPaidInTimeFilter"} -> {"debtor"}
      [] OTHER -> {"borrower"}

FundingRequestFieldsRead(f) ==
    CASE f = "CreditTypeFilter" -> {"credit_type"}
      [] f = "MinimumInvestmentFilter" -> {"maximum_investment"}
      [] f = "MinimumScoreFilter" -> {"score"}
      [] f = "MinimumMonthlyProfitFilter" -> {"monthly_profit_rate"}
      [] f = "MinimumIRRFilter" -> {"irr"}
      [] f \in {"MinimumDurationFilter", "MaximumDurationFilter"} -> {"duration"}
      [] f = "DebtorDicomFilter" -> {"debtors"}
      [] f = "DebtorMinimumPaidInTimeFilter" -> {"debtors", "debtor"}
      [] OTHER -> {"borrower"}

\* The inputs of the filter specification: for a filter class, every value
\* of what it reads, in a configuration and a request otherwise at base.
FilterInputs ==
    UNION { ConfigurationVariants(AllUnset, ConfigurationFieldsRead(f))
                \X FundingRequestVariants(BaseFundingRequest, FundingRequestFieldsRead(f)) :
            f \in FilterClasses }

----------------------------------------------------------------------------
(* Idle values of the parts a behaviour does not exercise *)

NoOutcome == [raised |-> "pending", value |-> FALSE]

NoList == [raised |-> "pending", value |-> <<>>]

IdleFilter ==
    /\ configuration = AllUnset
    /\ funding_request = BaseFundingRequest
    /\ applied = ""
    /\ outcome = NoOutcome

IdleFilterSet ==
    /\ filters = <<>>
    /\ funding_requests = <<>>
    /\ filtered = NoList

IdleConstruction ==
    /\ data = <<>>
    /\ constructed = <<>>

IdleHandlers ==
    /\ user = <<>>
    /\ payload = <<>>
    /\ handler = ""
    /\ promising = NoList
    /\ failure = ""
    /\ tasks = <<>>
    /\ events = <<>>

IdleGather ==
    /\ full_funding_requests = <<>>
    /\ source = <<>>
    /\ futures = <<>>
    /\ completion = <<>>
    /\ gathering = ""
    /\ gathered = NoList

IdleSchedule ==
    /\ store = <<>>
    /\ queue = <<>>
    /\ fetches = 0
    /\ updates = 0

----------------------------------------------------------------------------
(* The filter specification: one filter applied to one request *)

InitFilter ==
    /\ mode = "filter"
    /\ \E input \in FilterInputs :
          /\ configuration = input[1]
          /\ funding_request = input[2]
    /\ applied = ""
    /\ outcome = NoOutcome
    /\ IdleFilterSet
    /\ IdleConstruction
    /\ IdleHandlers
    /\ IdleGather
    /\ IdleSchedule

\* Filter(configuration).apply(funding_request) for one class of the catalog.
ApplyFilter(f) ==
    /\ mode = "filter"
    /\ applied = ""
    /\ applied' = f
    /\ outcome' = Apply(f, configuration, funding_request)
    /\ UNCHANGED <<mode, configuration, funding_request>>
    /\ UNCHANGED <<filterSetVars, constructionVars, handlerVars>>
    /\ UNCHANGED <<gatherVars, scheduleVars>>

\* _filter_funding_requests([funding_request], *catalog): the 14 filters of
\* one configuration over a batch of one.
EvaluateConfiguration ==
    /\ mode = "filter"
    /\ applied = ""
    /\ applied' = "catalog"
    /\ filters' = FilterCatalog
    /\ funding_requests' = <<funding_request>>
    /\ filtered' = _filter_funding_requests(<<funding_request>>, FilterCatalog, configuration)
    /\ UNCHANGED <<mode, configuration, funding_request, outcome>>
    /\ UNCHANGED <<constructionVars, handlerVars>>
    /\ UNCHANGED <<gatherVars, scheduleVars>>

NextFilter ==
    \/ \E f \in FilterClasses : ApplyFilter(f)
    \/ EvaluateConfiguration

SpecFilter == InitFilter /\ [][NextFilter]_vars

----------------------------------------------------------------------------
(* Claims about single filters *)

\* Every threshold and toggle of the configuration is None or not set.
Unset(cfg) ==
    /\ \A field \in ConfigurationFields \ {"debtor", "borrower"} :
          cfg[field] = AllUnset[field]
    /\ cfg.debtor \in {AllUnset.debtor, NoDebtorConfiguration}
    /\ cfg.borrower \in {AllUnset.borrower, NoBorrowerConfiguration}

DicomFilters == {"DebtorDicomFilter", "BorrowerDicomFilter"}

SomeDebtorHasDicom(fr) == \E i \in DOMAIN fr.debtors : fr.debtors[i].dicom = "true"

HasDicom(fr) == SomeDebtorHasDicom(fr) \/ fr.borrower.dicom = "true"

C7_FiltersNeverRaise ==
    applied \in FilterClasses => outcome.raised = ""

\* The threshold that the filter class f compares a nullable signal with.
SignalThreshold(f, cfg) ==
    CASE f = "BorrowerMaximumAverageDaysDelinquentFilter" ->
             IF cfg.borrower.present
             THEN cfg.borrower.maximum_average_days_delinquent ELSE None
      [] f = "BorrowerMinimumPaidInTimeFilter" ->
             IF cfg.borrower.present
             THEN cfg.borrower.minimum_paid_in_time_percentage ELSE None
      [] f = "DebtorMinimumPaidInTimeFilter" ->
             IF cfg.debtor.present
             THEN cfg.debtor.minimum_paid_in_time_percentage ELSE None

\* The request carries no value of the signal that the filter class f reads.
SignalMissing(f, fr) ==
    CASE f = "BorrowerMaximumAverageDaysDelinquentFilter" ->
             fr.borrower.average_days_delinquent = None
      [] f = "BorrowerMinimumPaidInTimeFilter" ->
             fr.borrower.portfolio.paid_in_time = None
      [] f = "DebtorMinimumPaidInTimeFilter" ->
             \A i \in DOMAIN fr.debtors : fr.debtors[i].portfolio.paid_in_time = None

NullableSignalFilters ==
    { "BorrowerMaximumAverageDaysDelinquentFilter", "BorrowerMinimumPaidInTimeFilter",
      "DebtorMinimumPaidInTimeFilter" }

\* C8, as stated: with its threshold configured, each of the three filters on
\* a nullable signal passes a request whose signal is missing (average days
\* delinquent null, borrower paid-in-time null, every debtor's paid-in-time
\* null or no debtors).
C8_MissingSignalNeverRejects ==
    ( /\ applied \in NullableSignalFilters
      /\ SignalThreshold(applied, configuration) # None
      /\ SignalMissing(applied, funding_request) )
        => outcome = Return(TRUE)

\* C13: the duration filters compare the duration in days, the value of a
\* duration in days and thirty times the value of a duration in months:
\* with a minimum configured MinimumDurationFilter passes iff the days are
\* at least the minimum, with a maximum configured MaximumDurationFilter
\* passes iff the days are at most the maximum; with minimum 40 both
\* (2, MONTH) and (45, DAY) pass, with maximum 50 (45, DAY) passes and
\* (2, MONTH) does not.
C13_DurationsComparedInDays ==
    (mode = "filter" /\ applied \in {"MinimumDurationFilter", "MaximumDurationFilter"}) =>
        LET value == funding_request.duration.value
            unit == funding_request.duration.unit
            days == IF unit = "MONTH" THEN 30 * value ELSE value
            minimum == configuration.minimum_duration
            maximum == configuration.maximum_duration
        IN  /\ unit \in {"DAY", "MONTH"}
            /\ (applied = "MinimumDurationFilter" /\ minimum # None) =>
                  outcome = Return(days >= minimum)
            /\ (applied = "MaximumDurationFilter" /\ maximum # None) =>
                  outcome = Return(days <= maximum)
            /\ (applied = "MinimumDurationFilter" /\ minimum = 40
                  /\ <<value, unit>> \in {<<2, "MONTH">>, <<45, "DAY">>}) =>
                  outcome = Return(TRUE)
            /\ (applied = "MaximumDurationFilter" /\ maximum = 50) =>
                  /\ <<value, unit>> = <<45, "DAY">> => outcome = Return(TRUE)
                  /\ <<value, unit>> = <<2, "MONTH">> => outcome = Return(FALSE)

\* C13 witness: MaximumDurationFilter with maximum 50 rejected a request of
\* two months, which is 60 days.
C13_Witness ==
    /\ mode = "filter"
    /\ applied = "MaximumDurationFilter"
    /\ configuration.maximum_duration = 50
    /\ funding_request.duration = [value |-> 2, unit |-> "MONTH"]
    /\ outcome = Return(FALSE)

\* MinimumDurationFilter with minimum 40 passed a request of two months.
C13_MinimumReached ==
    /\ mode = "filter"
    /\ applied = "MinimumDurationFilter"
    /\ configuration.minimum_duration = 40
    /\ funding_request.duration = [value |-> 2, unit |-> "MONTH"]
    /\ outcome = Return(TRUE)

----------------------------------------------------------------------------
(* The filter-set specification: _filter_funding_requests on a batch *)

MaxBatch == 2
MaxFilters == 2

\* A few configurations and requests for the batch-level specifications:
\* a threshold on the score, a set of target credit types, and the debtor
\* sub-configuration present or absent.
SampleConfigurations ==
    { c \in ConfigurationVariants(AllUnset, {"minimum_score", "target_credit_types", "debtor"}) :
        /\ c.debtor \in {AllUnset.debtor, NoDebtorConfiguration}
        /\ c.target_credit_types \in {{"none"}, {"factoring"}} }

SampleFundingRequests ==
    FundingRequestVariants(BaseFundingRequest, {"score", "credit_type"})

\* The batches of at most n requests; the i-th request has id i.
Batches(n) ==
    { [i \in DOMAIN s |-> [s[i] EXCEPT !.id = i]] : s \in SeqsUpTo(SampleFundingRequests, n) }

SampleFilterClasses ==
    {"CreditTypeFilter", "MinimumScoreFilter", "MinimumIRRFilter", "DebtorDicomFilter"}

\* The lists of at most n distinct filter classes.
FilterLists(n) ==
    { fs \in SeqsUpTo(SampleFilterClasses, n) : Cardinality(Range(fs)) = Len(fs) }

InitFilterSet ==
    /\ mode = "filter_set"
    /\ configuration \in SampleConfigurations
    /\ funding_request = BaseFundingRequest
    /\ applied = ""
    /\ outcome = NoOutcome
    /\ filters \in FilterLists(MaxFilters)
    /\ funding_requests \in Batches(MaxBatch)
    /\ filtered = NoList
    /\ IdleConstruction
    /\ IdleHandlers
    /\ IdleGather
    /\ IdleSchedule

\* _filter_funding_requests(funding_requests, *filters).
FilterBatch ==
    /\ mode = "filter_set"
    /\ filtered = NoList
    /\ filtered' = _filter_funding_requests(funding_requests, filters, configuration)
    /\ UNCHANGED <<mode, filterVars, filters, funding_requests>>
    /\ UNCHANGED <<constructionVars, handlerVars>>
    /\ UNCHANGED <<gatherVars, scheduleVars>>

NextFilterSet == FilterBatch

SpecFilterSet == InitFilterSet /\ [][NextFilterSet]_vars

\* The orders of a list.
Orders(s) == { [i \in DOMAIN s |-> s[p[i]]] : p \in Permutations(DOMAIN s) }

\* C2, as stated: _filter_funding_requests returns exactly the requests for
\* which every filter's apply returns true, in the order of the input, and
\* the result is the same for every permutation of the filter list.
C2_FilterSetIsConjunction ==
    filtered # NoList =>
        /\ filtered.raised = "" =>
              filtered.value =
                  SelectSeq(funding_requests,
                            LAMBDA fr : \A i \in DOMAIN filters :
                                Apply(filters[i], configuration, fr) = Return(TRUE))
        /\ \A order \in Orders(filters) :
              _filter_funding_requests(funding_requests, order, configuration) = filtered

----------------------------------------------------------------------------
(* The handlers: routers/funding_requests.py and
   cumplo_spotter/routers/funding_requests/public.py *)

MaxConfigurations == 2

\* A Python set of funding requests is a list without repetitions, in the
\* order of insertion; set.update(items) adds the items not yet in it.
RECURSIVE SetUpdateAll(_, _)
SetUpdateAll(set, items) ==
    IF items = <<>> THEN set ELSE SetUpdateAll(set \o <<Head(items)>>, Tail(items))

RECURSIVE SetUpdate(_, _)
SetUpdate(set, items) ==
    IF items = <<>>
    THEN set
    ELSE SetUpdate(IF Head(items) \in Range(set) THEN set ELSE set \o <<Head(items)>>,
                   Tail(items))

\* for configuration in user.configurations.values():
\*     promising_funding_requests.update(filter_funding_requests(..., configuration))
\* from the set given; a filter that raises ends the loop and the handler.
RECURSIVE UpdateForEach(_, _, _)
UpdateForEach(set, configurations, frs) ==
    IF configurations = <<>>
    THEN Return(set)
    ELSE LET subset == filter_funding_requests(frs, Head(configurations))
         IN  IF subset.raised # "" THEN subset
             ELSE UpdateForEach(SetUpdate(set, subset.value), Tail(configurations), frs)

\* public.py: promising_funding_requests = set() if user.filters else set(payload)
InitialPromisingStrict(user_filters, frs) == <<>>

InitialPromising(user_filters, frs) ==
    IF user_filters # <<>> THEN <<>> ELSE SetUpdate(<<>>, frs)

\* body = {funding_request.id: funding_request.serialize() for ... in promising}
Body(set) ==
    [ id \in {set[i].id : i \in DOMAIN set} |->
        LET last == CHOOSE j \in DOMAIN set :
                        set[j].id = id /\ \A i \in DOMAIN set : set[i].id = id => i <= j
        IN  set[last] ]

WebhookTask(u, set) ==
    [ url |-> "herald/funding-requests/webhook/send",
      task_id |-> <<"send-funding-requests-webhook", u.id>>,
      queue |-> "herald",
      payload |-> Body(set) ]

PromisingEvents(u, set) ==
    [ i \in DOMAIN set |->
        [ event |-> "FUNDING_REQUEST_PROMISING", id_user |-> u.id, content |-> set[i] ] ]

Users ==
    [ id : {"u1"},
      configurations : SeqsUpTo(SampleConfigurations, MaxConfigurations),
      webhook_url : {"none", "https://hook"} ]

InitHandlers ==
    /\ mode = "handlers"
    /\ IdleFilter
    /\ IdleFilterSet
    /\ IdleConstruction
    /\ IdleGather
    /\ IdleSchedule
    /\ user \in Users
    /\ payload \in Batches(MaxBatch)
    /\ handler = ""
    /\ promising = NoList
    /\ failure = ""
    /\ tasks = <<>>
    /\ events = <<>>

\* GET /funding-requests/promising (routers/funding_requests.py); payload is
\* what get_available_funding_requests returned.
get_promising_funding_requests ==
    /\ mode = "handlers"
    /\ handler = ""
    /\ handler' = "get_promising_funding_requests"
    /\ promising' = UpdateForEach(<<>>, user.configurations, payload)
    /\ failure' = promising'.raised
    /\ UNCHANGED <<mode, user, payload, tasks, events>>
    /\ UNCHANGED <<filterVars, filterSetVars, constructionVars>>
    /\ UNCHANGED <<gatherVars, scheduleVars>>

\* POST /funding-requests/filter (routers/funding_requests.py, internal).
internal_filter_funding_requests ==
    /\ mode = "handlers"
    /\ handler = ""
    /\ handler' = "internal_filter_funding_requests"
    /\ promising' = UpdateForEach(<<>>, user.configurations, payload)
    /\ IF promising'.raised # ""
       THEN failure' = promising'.raised /\ tasks' = tasks
       ELSE IF promising'.value = <<>>
       THEN failure' = "" /\ tasks' = tasks
       ELSE IF user.webhook_url = "none"
       THEN failure' = "AssertionError" /\ tasks' = tasks
       ELSE failure' = "" /\ tasks' = Append(tasks, WebhookTask(user, promising'.value))
    /\ UNCHANGED <<mode, user, payload, events>>
    /\ UNCHANGED <<filterVars, filterSetVars, constructionVars>>
    /\ UNCHANGED <<gatherVars, scheduleVars>>

\* POST /funding-requests/filter (public.py); user.filters is the user's
\* configurations.
public_filter_funding_requests ==
    /\ mode = "handlers"
    /\ handler = ""
    /\ handler' = "public_filter_funding_requests"
    /\ promising' = UpdateForEach(InitialPromising(user.configurations, payload),
                                  user.configurations, payload)
    /\ failure' = promising'.raised
    /\ events' = IF promising'.raised # "" THEN events
                 ELSE events \o PromisingEvents(user, promising'.value)
    /\ UNCHANGED <<mode, user, payload, tasks>>
    /\ UNCHANGED <<filterVars, filterSetVars, constructionVars>>
    /\ UNCHANGED <<gatherVars, scheduleVars>>

NextHandlers ==
    \/ get_promising_funding_requests
    \/ internal_filter_funding_requests
    \/ public_filter_funding_requests

SpecHandlers == InitHandlers /\ [][NextHandlers]_vars

\* The request passes the full filter set of the configuration.
Passes(fr, cfg) == AllApply(FilterCatalog, cfg, fr) = Return(TRUE)

\* The number of times x occurs in the list s.
Count(x, s) == Cardinality({i \in DOMAIN s : s[i] = x})

\* The list is the set union of the per-configuration results over the
\* batch: a request of the batch is in it iff it passes some configuration,
\* nothing else is in it, and nothing is in it twice.
IsUnion(set, configurations, frs) ==
    /\ \A i \in DOMAIN frs :
          Count(frs[i], set) =
              IF \E c \in DOMAIN configurations : Passes(frs[i], configurations[c])
              THEN 1 ELSE 0
    /\ Range(set) \subseteq Range(frs)

\* C1, as stated: for any number of configurations the promising set of the
\* /promising and /filter handlers is the set union of the per-configuration
\* filter results, each request once.
C1_PromisingIsUnion ==
    (handler # "" /\ promising.raised = "") =>
        IsUnion(promising.value, user.configurations, payload)

\* C1, amended: the promising set is that union in the two handlers of
\* routers/funding_requests.py for any number of configurations and in the
\* /filter handler of public.py for a user with at least one filter; for a
\* user with no filter the /filter handler of public.py takes the whole
\* payload, each request once.
C1_PromisingIsUnionUnlessPublicWithoutFilters ==
    (handler # "" /\ promising.raised = "") =>
        IF handler = "public_filter_funding_requests" /\ user.configurations = <<>>
        THEN /\ Range(promising.value) = Range(payload)
             /\ \A i \in DOMAIN payload : Count(payload[i], promising.value) = 1
        ELSE IsUnion(promising.value, user.configurations, payload)

\* C1 witness: the internal /filter handler ran for a user with two
\* configurations on a batch of two requests; one request passes both
\* configurations, the other only the first, and the set holds two requests.
C1_Witness ==
    /\ handler = "internal_filter_funding_requests"
    /\ Len(user.configurations) = 2
    /\ Len(payload) = 2
    /\ promising.raised = ""
    /\ Len(promising.value) = 2
    /\ \E a, b \in DOMAIN payload :
          /\ Passes(payload[a], user.configurations[1])
          /\ Passes(payload[a], user.configurations[2])
          /\ Passes(payload[b], user.configurations[1])
          /\ ~Passes(payload[b], user.configurations[2])

\* C4: for a user with no configuration the handlers of
\* routers/funding_requests.py compute an empty promising set and create no
\* task, and the /filter handler of public.py takes the whole payload as
\* promising and publishes one event per request of the payload.
C4_NoConfigurations ==
    (handler # "" /\ user.configurations = <<>>) =>
        /\ failure = ""
        /\ tasks = <<>>
        /\ handler # "public_filter_funding_requests" =>
              promising = Return(<<>>) /\ events = <<>>
        /\ handler = "public_filter_funding_requests" =>
              /\ Range(promising.value) = Range(payload)
              /\ Len(events) = Len(payload)
              /\ \A i \in DOMAIN payload :
                    Cardinality({e \in DOMAIN events :
                        events[e].content = payload[i] /\ events[e].id_user = user.id}) = 1

\* C4 witness: the public handler ran for a user with no configuration on a
\* payload of two requests and published two events.
C4_Witness ==
    /\ handler = "public_filter_funding_requests"
    /\ user.configurations = <<>>
    /\ Len(payload) = 2
    /\ Len(events) = 2

----------------------------------------------------------------------------
(* Construction of a CumploFundingRequest:
   cumplo_spotter/models/cumplo/funding_request.py *)

MaxDescription == 2

\* A text is a list of words; a marker phrase is a text.  phrase in text:
Contains(phrase, text) ==
    \E i \in 0..(Len(text) - Len(phrase)) : SubSeq(text, i + 1, i + Len(phrase)) = phrase

ContainsAny(phrases, text) == \E phrase \in phrases : Contains(phrase, text)

\* The lexicon of DICOM markers.
BOTH_TRUE == <<"both_true">>
BOTH_FALSE == <<"both_false">>
DEBTOR_TRUE == <<"debtor_true">>
BORROWER_TRUE == {<<"borrower_true_a">>, <<"borrower_true_b">>}
BORROWER_FALSE == <<"borrower_false">>
SINGLE_FALSE == {<<"single_false">>}
SINGLE_TRUE == {<<"single_true">>}

\* The words of a raw description: the words of the lexicon, a word of no
\* marker, and two words in upper case.
RawWords ==
    { "both_true", "both_false", "debtor_true", "borrower_true_a", "borrower_true_b",
      "borrower_false", "single_false", "single_true", "other",
      "BOTH_TRUE", "BORROWER_FALSE" }

\* clean_text: the text in lower case.
Lower(word) ==
    CASE word = "BOTH_TRUE" -> "both_true"
      [] word = "BORROWER_FALSE" -> "borrower_false"
      [] OTHER -> word

clean_text(text) == [i \in DOMAIN text |-> Lower(text[i])]

\* The part of _identify_dicom_status after the two "both" markers: the
\* debtor marker, then the borrower markers, each test on its own; a later
\* assignment replaces an earlier one.
IdentifySeparately(description) ==
    LET debtor_dicom == IF Contains(DEBTOR_TRUE, description) THEN "true" ELSE "none"
        borrower_1 == IF ContainsAny(BORROWER_TRUE, description) THEN "true" ELSE "none"
        borrower_2 == IF Contains(BORROWER_FALSE, description) THEN "false" ELSE borrower_1
        borrower_3 ==
            IF borrower_2 = "none" /\ ContainsAny(SINGLE_FALSE, description)
            THEN "false"
            ELSE IF borrower_2 = "none" /\ ContainsAny(SINGLE_TRUE, description)
            THEN "true"
            ELSE borrower_2
    IN  <<debtor_dicom, borrower_3>>

\* _identify_dicom_status with the both-negative marker tested first.
_identify_dicom_status_negative_first(d) ==
    LET description == clean_text(d.solicitante.descripcion)
    IN  IF Contains(BOTH_FALSE, description) THEN <<"false", "false">>
        ELSE IF Contains(BOTH_TRUE, description) THEN <<"true", "true">>
        ELSE IdentifySeparately(description)

\* (debtor_dicom, borrower_dicom) from the borrower's description.
_identify_dicom_status(d) ==
    LET description == clean_text(d.solicitante.descripcion)
    IN  IF Contains(BOTH_TRUE, description) THEN <<"true", "true">>
        ELSE IF Contains(BOTH_FALSE, description) THEN <<"false", "false">>
        ELSE IdentifySeparately(description)

\* _set_dicom_status: the raw data with the DICOM status written on the
\* borrower and on every debtor.
_set_dicom_status(d) ==
    LET status == _identify_dicom_status(d)
    IN  [d EXCEPT !.solicitante.dicom = status[2],
                  !.pagadores = [i \in DOMAIN d.pagadores |->
                                    [d.pagadores[i] EXCEPT !.dicom = status[1]]]]

\* CumploCreditType: the upstream values.
CumploCreditType == {"irrigation", "balloon", "invoice", "bullet", "simple"}

\* CreditType: the canonical values.
CreditType == {"state_subsidy", "working_capital", "bullet_loan", "factoring"}

CREDIT_TYPE_TRANSLATIONS ==
    [ value \in CumploCreditType |->
        CASE value = "irrigation" -> "state_subsidy"
          [] value = "simple" -> "working_capital"
          [] value = "balloon" -> "bullet_loan"
          [] value = "bullet" -> "bullet_loan"
          [] value = "invoice" -> "factoring" ]

\* credit_type_validator that hands an unknown value on.
credit_type_validator_lenient(value) ==
    IF value \in DOMAIN CREDIT_TYPE_TRANSLATIONS
    THEN Return(CREDIT_TYPE_TRANSLATIONS[value])
    ELSE Return(value)

\* CREDIT_TYPE_TRANSLATIONS[value]: a value that is no key raises.
credit_type_validator(value) ==
    IF value \in DOMAIN CREDIT_TYPE_TRANSLATIONS
    THEN Return(CREDIT_TYPE_TRANSLATIONS[value])
    ELSE [raised |-> "KeyError", value |-> ""]

\* A raw percentage is a number units + cents/100 (cents in 0..99, the
\* number not negative) or a value that int() does not accept.
\* int(value): the number truncated.
IntOf(value) ==
    IF value.kind = "number" THEN Return(value.units)
    ELSE [raised |-> "ValueError", value |-> 0]

\* A Decimal is held as its number of ten-thousandths.
\* n / divisor of an integer n, to four places (exact for divisor 100).
Divide(n, divisor) == (n * 10000) \div divisor

\* round(x, 2) of a Decimal: to the nearest hundredth, a tie to the even one;
\* the result is held as its number of hundredths.
Round2(x) ==
    LET q == x \div 100
        r == x % 100
    IN  IF r > 50 \/ (r = 50 /\ q % 2 = 1) THEN q + 1 ELSE q

\* funded_percentage_validator dividing by 10000.
funded_percentage_validator_basis_points(value) ==
    LET n == IntOf(value)
    IN  IF n.raised # "" THEN n ELSE Return(Round2(Divide(n.value, 10000)))

\* round(Decimal(int(value) / 100), 2), in hundredths.
funded_percentage_validator(value) ==
    LET n == IntOf(value)
    IN  IF n.raised # "" THEN n ELSE Return(Round2(Divide(n.value, 100)))

\* funded_percentage == Decimal(1)
is_completed(request) == request.funded_percentage = 100

RawPercentages ==
    [ kind : {"number"}, units : {0, 33, 50, 99, 100, 3333, 5000}, cents : {0} ] \cup
    { [kind |-> "number", units |-> 33, cents |-> 33],
      [kind |-> "number", units |-> 99, cents |-> 99],
      [kind |-> "invalid", units |-> 0, cents |-> 0] }

RawCreditTypes == CumploCreditType \cup {"factoring", "unknown"}

RawData ==
    [ solicitante : [ descripcion : SeqsUpTo(RawWords, MaxDescription), dicom : {"absent"} ],
      pagadores : SeqsUpTo([dicom : {"absent"}], MaxDebtors),
      tipo_credito : RawCreditTypes,
      porcentaje_inversion : RawPercentages ]

NotConstructed ==
    [ status |-> "pending", credit_type |-> "", funded_percentage |-> 0,
      borrower |-> [dicom |-> "none"], debtors |-> <<>> ]

Failed(exception) == [NotConstructed EXCEPT !.status = exception]

InitConstruction ==
    /\ mode = "construction"
    /\ IdleFilter
    /\ IdleFilterSet
    /\ IdleHandlers
    /\ IdleGather
    /\ IdleSchedule
    /\ data \in RawData
    /\ constructed = NotConstructed

\* CumploFundingRequest(**data): _preprocess_data writes the DICOM status
\* into the raw data, then the fields are validated in the order of their
\* declaration (credit_type before funded_percentage); the first validator
\* that raises ends the construction.
Construct ==
    /\ mode = "construction"
    /\ constructed.status = "pending"
    /\ data' = _set_dicom_status(data)
    /\ LET credit_type == credit_type_validator(data.tipo_credito)
           funded_percentage == funded_percentage_validator(data.porcentaje_inversion)
       IN  constructed' =
               IF credit_type.raised # "" THEN Failed(credit_type.raised)
               ELSE IF credit_type.value \notin CreditType THEN Failed("ValidationError")
               ELSE IF funded_percentage.raised # "" THEN Failed("ValidationError")
               ELSE [ status |-> "constructed",
                      credit_type |-> credit_type.value,
                      funded_percentage |-> funded_percentage.value,
                      borrower |-> [dicom |-> data'.solicitante.dicom],
                      debtors |-> [i \in DOMAIN data'.pagadores |->
                                      [dicom |-> data'.pagadores[i].dicom]] ]
    /\ UNCHANGED <<mode, filterVars, filterSetVars, handlerVars>>
    /\ UNCHANGED <<gatherVars, scheduleVars>>

NextConstruction == Construct

SpecConstruction == InitConstruction /\ [][NextConstruction]_vars

----------------------------------------------------------------------------
(* Claims about the construction *)

\* The normalized description of the borrower.
Description == clean_text(data.solicitante.descripcion)

\* The DICOM status that the construction wrote: on the borrower and on
\* every debtor of the raw data, and from there on the constructed request.
BorrowerDicomIs(t) ==
    /\ data.solicitante.dicom = t
    /\ constructed.status = "constructed" => constructed.borrower.dicom = t

DebtorDicomIs(t) ==
    /\ \A i \in DOMAIN data.pagadores : data.pagadores[i].dicom = t
    /\ constructed.status = "constructed" =>
          /\ Len(constructed.debtors) = Len(data.pagadores)
          /\ \A i \in DOMAIN constructed.debtors : constructed.debtors[i].dicom = t

\* C5: a description with the both-positive marker gives (true, true)
\* whatever other marker it holds, the both-negative one included; one
\* without it and with the both-negative marker gives (false, false)
\* whatever debtor, borrower or single marker it holds.
C5_BothMarkersInPriority ==
    constructed.status # "pending" =>
        /\ Contains(BOTH_TRUE, Description) =>
              BorrowerDicomIs("true") /\ DebtorDicomIs("true")
        /\ (~Contains(BOTH_TRUE, Description) /\ Contains(BOTH_FALSE, Description)) =>
              BorrowerDicomIs("false") /\ DebtorDicomIs("false")

\* C5 witness: a request with a debtor was constructed from a description
\* with both "both" markers, and was given (true, true).
C5_Witness ==
    /\ constructed.status = "constructed"
    /\ Contains(BOTH_TRUE, Description)
    /\ Contains(BOTH_FALSE, Description)
    /\ data.pagadores # <<>>
    /\ BorrowerDicomIs("true")
    /\ DebtorDicomIs("true")

\* C6, as stated: with no "both" marker, a borrower-positive marker gives
\* borrower_dicom = true even if the borrower-negative marker is present too;
\* the borrower-negative marker gives false only without a borrower-positive
\* marker.
C6_BorrowerPositiveBeforeNegative ==
    ( /\ constructed.status # "pending"
      /\ ~Contains(BOTH_TRUE, Description)
      /\ ~Contains(BOTH_FALSE, Description) )
        => /\ ContainsAny(BORROWER_TRUE, Description) => BorrowerDicomIs("true")
           /\ (~ContainsAny(BORROWER_TRUE, Description) /\ Contains(BORROWER_FALSE, Description))
                 => BorrowerDicomIs("false")

\* C9: each of the 5 upstream credit types is translated to its fixed
\* canonical value (balloon and bullet to bullet_loan, irrigation to
\* state_subsidy, simple to working_capital, invoice to factoring), the
\* credit_type of a constructed request is one of the 4 canonical values,
\* and with any other upstream value the construction fails.
C9_CreditTypeMapping ==
    constructed.status # "pending" =>
        LET raw == data.tipo_credito
            expected == CASE raw \in {"balloon", "bullet"} -> "bullet_loan"
                          [] raw = "irrigation" -> "state_subsidy"
                          [] raw = "simple" -> "working_capital"
                          [] raw = "invoice" -> "factoring"
                          [] OTHER -> "no request"
        IN  /\ constructed.status = "constructed" =>
                  /\ constructed.credit_type = expected
                  /\ constructed.credit_type \in
                         {"state_subsidy", "working_capital", "bullet_loan", "factoring"}
            /\ expected # "no request" =>
                  \/ constructed.status = "constructed"
                  \/ /\ constructed.status = "ValidationError"
                     /\ data.porcentaje_inversion.kind = "invalid"
            /\ expected = "no request" => constructed.status = "KeyError"

\* C9 witness: a request was constructed from the upstream value balloon.
C9_Witness ==
    /\ constructed.status = "constructed"
    /\ data.tipo_credito = "balloon"
    /\ constructed.credit_type = "bullet_loan"

\* The raw percentage is the integer n.
RawIs(n) == data.porcentaje_inversion = [kind |-> "number", units |-> n, cents |-> 0]

\* C10, as stated: the funded_percentage of a constructed request is in
\* [0, 1]; raw 5000 gives 0.50 and raw 3333 gives 0.33.  (funded_percentage
\* is held in hundredths.)
C10_FundedPercentageInUnitInterval ==
    constructed.status = "constructed" =>
        /\ constructed.funded_percentage \in 0..100
        /\ RawIs(5000) => constructed.funded_percentage = 50
        /\ RawIs(3333) => constructed.funded_percentage = 33

\* C10, amended: the funded_percentage of a constructed request is
\* int(raw) / 100 with 2 decimal places, which is in [0, 1] exactly when
\* 0 <= int(raw) <= 100: raw 50 gives 0.50 and raw 33 gives 0.33, raw 5000
\* gives 50.00 and raw 3333 gives 33.33; is_completed holds exactly when
\* int(raw) = 100.
C10_FundedPercentageIsRawOverHundred ==
    constructed.status = "constructed" =>
        LET units == data.porcentaje_inversion.units
        IN  /\ constructed.funded_percentage = units
            /\ constructed.funded_percentage \in 0..100 <=> units \in 0..100
            /\ RawIs(50) => constructed.funded_percentage = 50
            /\ RawIs(33) => constructed.funded_percentage = 33
            /\ RawIs(5000) => constructed.funded_percentage = 5000
            /\ RawIs(3333) => constructed.funded_percentage = 3333
            /\ is_completed(constructed) <=> units = 100

\* C10 witness: a request constructed from the raw percentage 5000 holds
\* 50.00, and is not completed.
C10_Witness ==
    /\ constructed.status = "constructed"
    /\ RawIs(5000)
    /\ constructed.funded_percentage = 5000
    /\ ~is_completed(constructed)

----------------------------------------------------------------------------
(* The enrichment fan-out: integrations/cumplo.py, gather_full_funding_requests
   and get_credit_history *)

MaxGather == 3

FundingRequestIds == {1, 2}

DICOM_STRING == "CLIENTE CON DICOM"

\* The text of an element is a list of tokens; _extract_history_data drops
\* the "\n" and "%(*)" tokens and keeps what follows the last ":".
RECURSIVE AfterLastColon(_)
AfterLastColon(tokens) ==
    IF \E i \in DOMAIN tokens : tokens[i] = ":"
    THEN AfterLastColon(Tail(tokens))
    ELSE tokens

_extract_history_data(element) ==
    AfterLastColon(SelectSeq(element, LAMBDA t : t \notin {"\n", "%(*)"}))

\* The answers of the remote source: a page holds the elements selected by
\* "span.loan-view-optional-visibility + span" and its upper-cased text; an
\* unreachable page makes session.get raise.
Pages ==
    { [ reachable |-> TRUE,
        history |-> << <<"promedio", ":", "12">>, <<"pagado", ":", "95", "%(*)">> >>,
        text |-> <<"HISTORIAL">> ],
      [ reachable |-> TRUE,
        history |-> << <<"promedio", ":", "\n", "0">>, <<"nota", ":", "pagado", ":", "100", "%(*)">> >>,
        text |-> <<"HISTORIAL", "CLIENTE CON DICOM">> ],
      [ reachable |-> TRUE,
        history |-> << <<"promedio", ":", "12">> >>,
        text |-> <<"HISTORIAL">> ],
      [ reachable |-> FALSE, history |-> <<>>, text |-> <<>> ] }

NoCreditHistory ==
    [ present |-> FALSE, average_deliquent_days |-> <<>>, paid_in_time |-> <<>>,
      dicom |-> FALSE ]

CreditHistory(average_deliquent_days, paid_in_time, dicom) ==
    [ present |-> TRUE, average_deliquent_days |-> average_deliquent_days,
      paid_in_time |-> paid_in_time, dicom |-> dicom ]

\* get_credit_history(session, id_) against the remote source src: history[0]
\* and history[1] raise IndexError on a page with fewer than two elements.
get_credit_history(src, id_) ==
    LET page == src[id_]
    IN  IF ~page.reachable THEN [raised |-> "ClientError", value |-> NoCreditHistory]
        ELSE IF Len(page.history) < 2 THEN [raised |-> "IndexError", value |-> NoCreditHistory]
        ELSE Return(CreditHistory(_extract_history_data(page.history[1]),
                                  _extract_history_data(page.history[2]),
                                  DICOM_STRING \in Range(page.text)))

PendingFuture == [state |-> "pending", raised |-> "", result |-> NoCreditHistory]

\* gather(*tasks) with the results in the order of completion.
GatherResultsInCompletionOrder(futs, order) ==
    [k \in DOMAIN order |-> futs[order[k]].result]

\* gather(*tasks): the results in the order of the awaitables.
GatherResults(futs, order) ==
    [i \in DOMAIN futs |-> futs[i].result]

\* for funding_request, credit_history in zip(funding_requests, credit_histories):
\*     funding_request.borrower.history = credit_history
ZipHistories(frs, credit_histories) ==
    [ i \in DOMAIN frs |->
        IF i \in DOMAIN credit_histories
        THEN [frs[i] EXCEPT !.borrower.history = credit_histories[i]]
        ELSE frs[i] ]

\* The requests as constructed: no credit history yet.
GatherBatches(n) ==
    { [i \in DOMAIN ids |-> [id |-> ids[i], borrower |-> [history |-> NoCreditHistory]]] :
        ids \in SeqsUpTo(FundingRequestIds, n) }

InitGather ==
    /\ mode = "gather"
    /\ IdleFilter
    /\ IdleFilterSet
    /\ IdleConstruction
    /\ IdleHandlers
    /\ IdleSchedule
    /\ full_funding_requests \in GatherBatches(MaxGather)
    /\ source \in [FundingRequestIds -> Pages]
    /\ futures = <<>>
    /\ completion = <<>>
    /\ gathering = ""
    /\ gathered = NoList

\* The loop of ensure_future calls: one task per request, by position.
ensure_futures ==
    /\ mode = "gather"
    /\ gathering = ""
    /\ futures' = [i \in DOMAIN full_funding_requests |-> PendingFuture]
    /\ gathering' = "gather"
    /\ UNCHANGED <<mode, full_funding_requests, source, completion, gathered>>
    /\ UNCHANGED <<filterVars, filterSetVars, constructionVars, handlerVars, scheduleVars>>

\* While the coroutine awaits gather, the task at position i finishes: the
\* tasks finish in any order.
finish_get_credit_history(i) ==
    /\ mode = "gather"
    /\ gathering = "gather"
    /\ futures[i].state = "pending"
    /\ LET fetched == get_credit_history(source, full_funding_requests[i].id)
       IN  futures' = [futures EXCEPT ![i] =
                          [state |-> "done", raised |-> fetched.raised,
                           result |-> fetched.value]]
    /\ completion' = Append(completion, i)
    /\ UNCHANGED <<mode, full_funding_requests, source, gathering, gathered>>
    /\ UNCHANGED <<filterVars, filterSetVars, constructionVars, handlerVars, scheduleVars>>

\* The positions of the tasks that raised, in the order of completion.
FailedInOrder == SelectSeq(completion, LAMBDA i : futures[i].raised # "")

\* await gather(*tasks) raises the exception of the first task that failed;
\* the coroutine ends without reaching the zip loop.
gather_raises ==
    /\ mode = "gather"
    /\ gathering = "gather"
    /\ FailedInOrder # <<>>
    /\ gathered' = [raised |-> futures[Head(FailedInOrder)].raised, value |-> <<>>]
    /\ gathering' = "done"
    /\ UNCHANGED <<mode, full_funding_requests, source, futures, completion>>
    /\ UNCHANGED <<filterVars, filterSetVars, constructionVars, handlerVars, scheduleVars>>

\* await gather(*tasks) returns once every task is done and none raised; the
\* zip loop writes the histories and the list is returned.
gather_returns ==
    /\ mode = "gather"
    /\ gathering = "gather"
    /\ \A i \in DOMAIN futures : futures[i].state = "done" /\ futures[i].raised = ""
    /\ full_funding_requests' =
           ZipHistories(full_funding_requests, GatherResults(futures, completion))
    /\ gathered' = Return(full_funding_requests')
    /\ gathering' = "done"
    /\ UNCHANGED <<mode, source, futures, completion>>
    /\ UNCHANGED <<filterVars, filterSetVars, constructionVars, handlerVars, scheduleVars>>

NextGather ==
    \/ ensure_futures
    \/ \E i \in DOMAIN futures : finish_get_credit_history(i)
    \/ gather_raises
    \/ gather_returns

SpecGather == InitGather /\ [][NextGather]_vars

----------------------------------------------------------------------------
(* Claims about the enrichment fan-out *)

\* C11, as stated: a funding request is never modified after it has been
\* constructed; no step of the enrichment fetch changes any field of a
\* request of the list it was given.
C11_ConstructedRequestsNeverChange ==
    [][ mode = "gather" =>
            \A i \in DOMAIN full_funding_requests :
                full_funding_requests'[i] = full_funding_requests[i] ]_vars

\* The source answers the fetch for this id with a failure.
FetchFails(id_) == ~source[id_].reachable \/ Len(source[id_].history) < 2

\* C12: when gather_full_funding_requests has ended, whatever the order in
\* which the fetches finished: if the fetch of some request of the batch
\* fails, the call raised, returned no list and left every request without
\* a history; otherwise it returned the whole batch, position by position,
\* each request holding the credit history the source gives for its own id.
C12_PairedByPositionOrFailsWhole ==
    (mode = "gather" /\ gathering = "done") =>
        IF \E i \in DOMAIN full_funding_requests : FetchFails(full_funding_requests[i].id)
        THEN /\ gathered.raised \in {"ClientError", "IndexError"}
             /\ gathered.value = <<>>
             /\ \A i \in DOMAIN full_funding_requests :
                   ~full_funding_requests[i].borrower.history.present
        ELSE /\ gathered.raised = ""
             /\ Len(gathered.value) = Len(futures)
             /\ \A i \in DOMAIN gathered.value :
                   LET page == source[gathered.value[i].id]
                   IN  /\ gathered.value[i].borrower.history.present
                       /\ gathered.value[i].borrower.history.dicom =
                              (DICOM_STRING \in Range(page.text))
                       /\ gathered.value[i].borrower.history.average_deliquent_days =
                              <<page.history[1][Len(page.history[1])]>>
                       /\ gathered.value[i].borrower.history.paid_in_time =
                              <<page.history[2][Len(page.history[2]) - 1]>>

\* C12 witness: a batch of two requests with different ids whose pages
\* differ, the second fetch finished before the first, and the call returned.
C12_Witness ==
    /\ mode = "gather"
    /\ gathering = "done"
    /\ gathered.raised = ""
    /\ completion = <<2, 1>>
    /\ full_funding_requests[1].id # full_funding_requests[2].id
    /\ source[1] # source[2]

\* A batch of three whose second fetch failed after the first had finished:
\* the call raised and no request holds a history.
C12_FailureReached ==
    /\ mode = "gather"
    /\ gathering = "done"
    /\ Len(full_funding_requests) = 3
    /\ completion = <<1, 2>>
    /\ futures[1].raised = ""
    /\ gathered.raised = "IndexError"

----------------------------------------------------------------------------
(* The scheduling of the filter tasks: routers/funding_requests.py, /fetch
   and /filter, over the user records of the document store *)

MaxFetches == 2
MaxUpdates == 1

UserIds == {"u1", "u2"}

\* The configurations a stored user holds here: none, one that sets nothing
\* or one with a minimum score.
StoredConfigurations ==
    { <<>> } \cup
    { <<c>> : c \in { k \in SampleConfigurations :
                        k.debtor.present /\ k.target_credit_types = {"none"} } }

StoredUsers(id) ==
    [ id : {id}, configurations : StoredConfigurations,
      webhook_url : {"none", "https://hook"} ]

\* What get_available_funding_requests returns to /fetch.
AvailableFundingRequests ==
    { b \in Batches(MaxBatch) :
        \A i \in DOMAIN b : b[i].credit_type = BaseFundingRequest.credit_type }

\* FilterFundingRequestPayload(id_user=user.id, funding_requests=funding_requests)
\* in the task created for the user.
FilterTask(u, frs) ==
    [ url |-> "spotter/funding-requests/filter",
      task_id |-> <<"filter-funding-requests", u.id>>,
      queue |-> "spotter",
      payload |-> [id_user |-> u.id, funding_requests |-> frs] ]

\* firestore_client.get_users(): the users of the store, in the order of
\* their ids.
get_users(users) == << users["u1"], users["u2"] >>

\* The loop of /fetch: a user with no webhook URL is skipped, a task is
\* created for each of the others.
RECURSIVE ScheduleFilterTasks(_, _)
ScheduleFilterTasks(users, frs) ==
    IF users = <<>> THEN <<>>
    ELSE IF Head(users).webhook_url = "none"
         THEN ScheduleFilterTasks(Tail(users), frs)
         ELSE <<FilterTask(Head(users), frs)>> \o ScheduleFilterTasks(Tail(users), frs)

\* The list without its k-th element.
Without(list, k) == SubSeq(list, 1, k - 1) \o SubSeq(list, k + 1, Len(list))

InitSchedule ==
    /\ mode = "schedule"
    /\ IdleFilter
    /\ IdleFilterSet
    /\ IdleConstruction
    /\ IdleHandlers
    /\ IdleGather
    /\ store \in { st \in [UserIds -> UNION {StoredUsers(id) : id \in UserIds}] :
                     \A id \in UserIds : st[id].id = id }
    /\ queue = <<>>
    /\ fetches = 0
    /\ updates = 0

\* POST /funding-requests/fetch.
fetch_funding_requests ==
    /\ mode = "schedule"
    /\ fetches < MaxFetches
    /\ \E frs \in AvailableFundingRequests :
          queue' = queue \o ScheduleFilterTasks(get_users(store), frs)
    /\ fetches' = fetches + 1
    /\ UNCHANGED <<mode, store, updates, handlerVars>>
    /\ UNCHANGED <<filterVars, filterSetVars, constructionVars, gatherVars>>

\* FirestoreClient.update_user(user): the record of the user is replaced.
update_user ==
    /\ mode = "schedule"
    /\ updates < MaxUpdates
    /\ \E id \in UserIds : \E u \in StoredUsers(id) :
          /\ u # store[id]
          /\ store' = [store EXCEPT ![id] = u]
    /\ updates' = updates + 1
    /\ UNCHANGED <<mode, queue, fetches, handlerVars>>
    /\ UNCHANGED <<filterVars, filterSetVars, constructionVars, gatherVars>>

\* A filter task of the queue runs: POST /funding-requests/filter with the
\* payload of the task; the user is read from the store when it runs.  The
\* tasks of the queue run in any order.
run_filter_task ==
    /\ mode = "schedule"
    /\ \E k \in DOMAIN queue :
          /\ queue' = Without(queue, k)
          /\ user' = store[queue[k].payload.id_user]
          /\ payload' = queue[k].payload.funding_requests
    /\ handler' = "internal_filter_funding_requests"
    /\ promising' = UpdateForEach(<<>>, user'.configurations, payload')
    /\ IF promising'.raised # ""
       THEN failure' = promising'.raised /\ tasks' = tasks
       ELSE IF promising'.value = <<>>
       THEN failure' = "" /\ tasks' = tasks
       ELSE IF user'.webhook_url = "none"
       THEN failure' = "AssertionError" /\ tasks' = tasks
       ELSE failure' = "" /\ tasks' = Append(tasks, WebhookTask(user', promising'.value))
    /\ UNCHANGED <<mode, store, fetches, updates, events>>
    /\ UNCHANGED <<filterVars, filterSetVars, constructionVars, gatherVars>>

NextSchedule ==
    \/ fetch_funding_requests
    \/ update_user
    \/ run_filter_task

SpecSchedule == InitSchedule /\ [][NextSchedule]_vars

----------------------------------------------------------------------------
(* Claims about the scheduled filter tasks *)

\* The step is a run of the /filter handler for a task of the queue.
FilterTaskRan == mode = "schedule" /\ Len(queue') = Len(queue) - 1

\* The task is the webhook delivery of the set for the user: its key is made
\* of the purpose and the user id alone, and its body holds one entry per id
\* of the set, the request of that id, and nothing else.
IsWebhookDelivery(task, u, set) ==
    /\ task.task_id = <<"send-funding-requests-webhook", u.id>>
    /\ DOMAIN task.payload = {set[i].id : i \in DOMAIN set}
    /\ \A i \in DOMAIN set : task.payload[set[i].id] = set[i]

\* C14, as stated: a run of the internal /filter handler creates a webhook
\* delivery task iff the promising set of the user is not empty: no task
\* for an empty set, exactly one for a non-empty set, keyed by the user id
\* alone and holding exactly the promising requests, one entry per id.
C14_TaskIffPromising ==
    [][ FilterTaskRan =>
          IF promising'.value = <<>>
          THEN tasks' = tasks
          ELSE /\ Len(tasks') = Len(tasks) + 1
               /\ SubSeq(tasks', 1, Len(tasks)) = tasks
               /\ IsWebhookDelivery(tasks'[Len(tasks')], user', promising'.value) ]_vars

\* C14 where the user read from the store has a webhook URL.
C14_TaskIffPromisingWithWebhookUrl ==
    [][ (FilterTaskRan /\ user'.webhook_url # "none") =>
          IF promising'.value = <<>>
          THEN tasks' = tasks
          ELSE /\ Len(tasks') = Len(tasks) + 1
               /\ SubSeq(tasks', 1, Len(tasks)) = tasks
               /\ IsWebhookDelivery(tasks'[Len(tasks')], user', promising'.value) ]_vars

\* Two runs for the same user each created a task, both with the same key.
C14_TwoTasksReached ==
    /\ mode = "schedule"
    /\ Len(tasks) = 2
    /\ tasks[1].task_id = tasks[2].task_id
    /\ tasks[1].payload # tasks[2].payload

\* C15, as stated: in every run of a filter task that /fetch scheduled, when
\* the handler has read the user from the store and the promising set is
\* not empty, the user has a webhook URL and the assertion holds.
C15_AssertionHolds ==
    (mode = "schedule" /\ handler # "" /\ promising.raised = "" /\ promising.value # <<>>) =>
        user.webhook_url # "none" /\ failure = ""

\* /fetch creates a filter task only for a user who has a webhook URL when
\* it reads the store: with no update of the store every queued task is for
\* such a user.
C15_ScheduledOnlyWithWebhookUrl ==
    (mode = "schedule" /\ updates = 0) =>
        \A k \in DOMAIN queue : store[queue[k].payload.id_user].webhook_url # "none"

====
